---------------------------- MODULE Spec2Model ----------------------------
(***************************************************************************)
(* A model of the epee-encoding crate: the varint codec, the marker codec, *)
(* the value codec, the object engine (to_bytes / from_bytes) and the code *)
(* that #[derive(EpeeObject)] generates for a struct declaration.          *)
(*                                                                         *)
(* Bytes are integers 0..255 and a byte stream is a sequence of them.      *)
(* TLC's integers are 32 bits wide, so a u64 is kept as its eight base-256 *)
(* digits, least significant first; the arithmetic the code does on a u64  *)
(* (<<, |, comparison, truncating casts) is done digit by digit.           *)
(***************************************************************************)
EXTENDS Integers, Sequences, FiniteSets, TLC

VARIABLES
    vn,       \* varint run: the number handed to write_varint
    vtail,    \* varint run: bytes that follow the varint in the reader
    vout,     \* varint run: what write_varint wrote
    vin,      \* varint run: what read_varint returned
    vpc,      \* varint run: "idle", "start", "written", "read"
    ty,       \* codec run: the struct to_bytes is called on
    rec,      \* codec run: the record handed to to_bytes
    src,      \* codec run: "rec" when wire came from to_bytes, "doc" when received
    wire,     \* codec run: the bytes handed to from_bytes
    dty,      \* codec run: the struct from_bytes decodes into
    rd,       \* codec run: the reader (the bytes not consumed yet)
    nleft,    \* codec run: iterations left of read_object's field loop
    builder,  \* codec run: the object builder of the root object
    skipped,  \* codec run: the skipped_objects counter
    res,      \* codec run: what from_bytes returned
    wire2,    \* codec run: to_bytes of the decoded record
    pc,       \* codec run: "idle", "start", "encoded", "fields", "failed" (from_bytes
              \* returned an error before finish), "finished" (finish was called),
              \* "reencoded"
    sty,      \* skip run: the struct from_bytes decodes into
    sdoc,     \* skip run: the bytes handed to from_bytes
    srd,      \* skip run: the reader (the bytes not consumed yet)
    loops,    \* skip run: the loops in progress, the outermost first: those of
              \* read_object (fn, left) and of skip_epee_value (fn, marker,
              \* left, entry)
    sbuilder, \* skip run: the object builder of the root object
    skipped_objects,  \* skip run: the counter read_head_object declares
    sres,     \* skip run: what from_bytes returned
    spc,      \* skip run: "idle", "start", "run", "returned"
    mk,       \* marker run: the marker as_u8 is called on, <<>> when a byte arrives
    mbyte,    \* marker run: the byte as_u8 returned or that arrived
    mres,     \* marker run: what read_marker returned
    mpc       \* marker run: "idle", "start", "written", "read"

vars == <<vn, vtail, vout, vin, vpc, ty, rec, src, wire, dty, rd, nleft,
          builder, skipped, res, wire2, pc,
          sty, sdoc, srd, loops, sbuilder, skipped_objects, sres, spc,
          mk, mbyte, mres, mpc>>
varintVars == <<vn, vtail, vout, vin, vpc>>
codecVars == <<ty, rec, src, wire, dty, rd, nleft, builder, skipped, res, wire2, pc>>
skipVars == <<sty, sdoc, srd, loops, sbuilder, skipped_objects, sres, spc>>
markerVars == <<mk, mbyte, mres, mpc>>

-----------------------------------------------------------------------------
(* Results: error.rs *)

NoErr == <<"", "">>
ErrIO(msg) == <<"IO", msg>>
ErrFormat(msg) == <<"Format", msg>>
ErrValue(msg) == <<"Value", msg>>

Ok(v, rest) == [ok |-> TRUE, val |-> v, rest |-> rest, err |-> NoErr]
Err(e) == [ok |-> FALSE, val |-> <<>>, rest |-> <<>>, err |-> e]

\* The ? operator: an Err returns from the function, an Ok goes on.
Then(x, K(_)) == IF x.ok THEN K(x) ELSE x

-----------------------------------------------------------------------------
(* Integers as bytes *)

RECURSIVE LeBytes(_, _)
\* to_le_bytes of an integer of w bytes (two's complement for a negative one).
LeBytes(v, w) == IF w = 0 THEN <<>> ELSE <<v % 256>> \o LeBytes(v \div 256, w - 1)

RECURSIVE FromLeUnsigned(_)
\* from_le_bytes of an unsigned integer.
FromLeUnsigned(b) ==
    IF Len(b) = 0 THEN 0 ELSE b[1] + 256 * FromLeUnsigned(Tail(b))

RECURSIVE FromLeSigned(_)
\* from_le_bytes of a signed integer: the top byte carries the sign.
FromLeSigned(b) ==
    IF Len(b) = 1 THEN (IF b[1] >= 128 THEN b[1] - 256 ELSE b[1])
    ELSE b[1] + 256 * FromLeSigned(Tail(b))

\* A u64 as its eight base-256 digits, least significant first.
U64(n) == LeBytes(n, 8)

\* a <= b on u64.
RECURSIVE LeqFrom(_, _, _)
LeqFrom(a, b, i) ==
    IF i = 0 THEN TRUE
    ELSE IF a[i] < b[i] THEN TRUE
    ELSE IF a[i] > b[i] THEN FALSE
    ELSE LeqFrom(a, b, i - 1)
LeqU64(a, b) == LeqFrom(a, b, 8)

\* (a << 2) on u64: the two top bits are shifted out.
Shl2(a) == [i \in 1..8 |-> ((a[i] * 4) % 256) + (IF i > 1 THEN a[i - 1] \div 64 ELSE 0)]

\* (a | m) for a u64 whose two low bits are clear and 0 <= m <= 3.
OrLow(a, m) == [a EXCEPT ![1] = a[1] + m]

\* a as usize, as far as a loop over 0..a can tell on a reader holding avail
\* bytes: every iteration of the loops of this crate reads at least one byte,
\* so avail + 1 iterations and any larger count fail in the same place.
LoopCount(a, avail) ==
    IF LeqU64(a, U64(avail)) THEN FromLeUnsigned(SubSeq(a, 1, 4)) ELSE avail + 1

-----------------------------------------------------------------------------
(* io.rs *)

\* A read_exact that takes a short read for a full one, the bytes that are
\* missing left at 0.
read_exact_short(buf, n) ==
    IF Len(buf) < n THEN Ok(buf \o [i \in 1..(n - Len(buf)) |-> 0], <<>>)
    ELSE Ok(SubSeq(buf, 1, n), SubSeq(buf, n + 1, Len(buf)))

\* Read::read_exact on a byte slice: one read, no retry.
read_exact(buf, n) ==
    IF Len(buf) < n THEN Err(ErrIO("Reader ran out of bytes"))
    ELSE Ok(SubSeq(buf, 1, n), SubSeq(buf, n + 1, Len(buf)))

read_bytes(buf, n) == read_exact(buf, n)

read_var_bytes(buf, len) == read_exact(buf, len)

read_byte(buf) == Then(read_bytes(buf, 1), LAMBDA r : Ok(r.val[1], r.rest))

\* String::from_utf8 on the bytes this model uses: ASCII is valid, the bytes
\* 0x80..0xBF and 0xF8..0xFF cannot start a character.
Utf8Valid(b) == \A i \in 1..Len(b) : b[i] < 128

read_string(buf, len) ==
    Then(read_var_bytes(buf, len), LAMBDA r :
        IF ~Utf8Valid(r.val) THEN Err(ErrFormat("Invalid string"))
        ELSE Ok(r.val, r.rest))

-----------------------------------------------------------------------------
(* varint.rs *)

SIZE_OF_SIZE_MARKER == 2
FITS_IN_ONE_BYTE == U64(2^(8 - SIZE_OF_SIZE_MARKER) - 1)
FITS_IN_TWO_BYTES == U64(2^(16 - SIZE_OF_SIZE_MARKER) - 1)
FITS_IN_FOUR_BYTES == U64(2^(32 - SIZE_OF_SIZE_MARKER) - 1)

\* The number of bytes a varint takes, from the two low bits of its first byte.
varint_len(vi_start) ==
    CASE vi_start % 4 = 0 -> 1
      [] vi_start % 4 = 1 -> 2
      [] vi_start % 4 = 2 -> 4
      [] vi_start % 4 = 3 -> 8

\* vi |= u64::from(byte) << (((i - 1) * 8) + 6): the two low bits of the byte
\* land on top of digit i, its six high bits at the bottom of digit i + 1.
varint_or(vi, byte, i) ==
    [j \in 1..8 |->
        IF j = i THEN vi[j] + (byte % 4) * 64
        ELSE IF j = i + 1 THEN vi[j] + (byte \div 4)
        ELSE vi[j]]

RECURSIVE varint_loop(_, _, _, _)
\* for i in 1..len { vi |= read_byte(reader)? << ... }
varint_loop(vi, buf, i, len) ==
    IF i >= len THEN Ok(vi, buf)
    ELSE Then(read_byte(buf), LAMBDA b :
             varint_loop(varint_or(vi, b.val, i), b.rest, i + 1, len))

read_varint(buf) ==
    Then(read_byte(buf), LAMBDA s :
        varint_loop(U64(s.val \div 4), s.rest, 1, varint_len(s.val)))

\* A size marker whose thresholds are exclusive.
size_marker_exclusive(number) ==
    IF ~LeqU64(FITS_IN_ONE_BYTE, number) THEN 0
    ELSE IF ~LeqU64(FITS_IN_TWO_BYTES, number) THEN 1
    ELSE IF ~LeqU64(FITS_IN_FOUR_BYTES, number) THEN 2
    ELSE 3

\* let size_marker = match number { ..=FITS_IN_ONE_BYTE => 0, ... }
size_marker(number) ==
    IF LeqU64(number, FITS_IN_ONE_BYTE) THEN 0
    ELSE IF LeqU64(number, FITS_IN_TWO_BYTES) THEN 1
    ELSE IF LeqU64(number, FITS_IN_FOUR_BYTES) THEN 2
    ELSE 3

write_varint(number) ==
    LET m == size_marker(number)
        shifted == OrLow(Shl2(number), m)
    IN CASE m = 0 -> SubSeq(shifted, 1, 1)
         [] m = 1 -> SubSeq(shifted, 1, 2)
         [] m = 2 -> SubSeq(shifted, 1, 4)
         [] m = 3 -> shifted

-----------------------------------------------------------------------------
(* marker.rs *)

InnerMarkers ==
    <<"I64", "I32", "I16", "I8", "U64", "U32", "U16", "U8", "F64", "String",
      "Bool", "Object">>

\* Marker::new
Marker(inner) == [inner |-> inner, is_seq |-> FALSE]

\* Marker::into_seq; a sequence of sequences panics at compile time.
into_seq(m) ==
    IF m.inner = "U8" THEN [inner |-> "String", is_seq |-> FALSE]
    ELSE [inner |-> m.inner, is_seq |-> TRUE]

\* The number of an inner marker: its place in the enum, from 1.
marker_val(inner) == CHOOSE i \in 1..Len(InnerMarkers) : InnerMarkers[i] = inner

\* Marker::as_u8
as_u8(m) == IF m.is_seq THEN marker_val(m.inner) + 128 ELSE marker_val(m.inner)

\* TryFrom<u8> for Marker
marker_try_from(value) ==
    LET is_seq == value >= 128
        v == IF is_seq THEN value - 128 ELSE value
    IN IF v \in 1..Len(InnerMarkers)
       THEN Ok([inner |-> InnerMarkers[v], is_seq |-> is_seq], <<>>)
       ELSE Err(<<"Other", "Unknown value Marker">>)

-----------------------------------------------------------------------------
(* The value types of value.rs.  A type is a tuple: <<"u8">>, ..., <<"f64">>, *)
(* <<"bool">>, <<"string">> (String), <<"bytes">> (Vec<u8>), <<"obj", S>> (a *)
(* struct S that derives EpeeObject), <<"vec", t>> (Vec<t>) and <<"opt", t>> *)
(* (Option<t>).  A value of an integer type of up to 32 bits is an integer,  *)
(* one of a 64-bit type (u64, i64, f64) its eight little-endian digits, a    *)
(* bool a BOOLEAN, a String or Vec<u8> its bytes, a Vec a sequence, an       *)
(* Option <<>> for None and <<v>> for Some(v), a struct a record.            *)

Numbers == {"i64", "i32", "i16", "i8", "u64", "u32", "u16", "u8", "f64"}
Wide == {"i64", "u64", "f64"}
Signed == {"i32", "i16", "i8"}

\* size_of of a number type.
Width(k) ==
    CASE k \in {"i64", "u64", "f64"} -> 8
      [] k \in {"i32", "u32"} -> 4
      [] k \in {"i16", "u16"} -> 2
      [] k \in {"i8", "u8"} -> 1

\* epee_numb!($numb, $marker): the inner marker of a number type.
NumberMarker(k) ==
    CASE k = "i64" -> "I64" [] k = "i32" -> "I32" [] k = "i16" -> "I16"
      [] k = "i8" -> "I8" [] k = "u64" -> "U64" [] k = "u32" -> "U32"
      [] k = "u16" -> "U16" [] k = "u8" -> "U8" [] k = "f64" -> "F64"

\* <$numb>::to_le_bytes
to_le_bytes(k, v) == IF k \in Wide THEN v ELSE LeBytes(v, Width(k))

\* <$numb>::from_le_bytes
from_le_bytes(k, b) ==
    IF k \in Wide THEN b
    ELSE IF k \in Signed THEN FromLeSigned(b)
    ELSE FromLeUnsigned(b)

RECURSIVE MARKER(_)
\* EpeeValue::MARKER of a type.
MARKER(t) ==
    CASE t[1] \in Numbers -> Marker(NumberMarker(t[1]))
      [] t[1] = "bool" -> Marker("Bool")
      [] t[1] \in {"string", "bytes"} -> Marker("String")
      [] t[1] = "obj" -> Marker("Object")
      [] t[1] = "vec" -> into_seq(MARKER(t[2]))
      [] t[1] = "opt" -> MARKER(t[2])

-----------------------------------------------------------------------------
(* lib.rs: constants *)

HEADER == <<1, 17, 1, 1, 1, 1, 2, 1, 1>>
MAX_STRING_LEN_POSSIBLE == U64(2000000000)
MAX_DEPTH_OF_SKIPPED_OBJECTS == 20

\* str::as_bytes of the field names in use.
NameBytes(s) ==
    CASE s = "val" -> <<118, 97, 108>>
      [] s = "optional_val" -> <<111, 112, 116, 105, 111, 110, 97, 108, 95, 118, 97, 108>>
      [] s = "val2" -> <<118, 97, 108, 50>>
      [] s = "d" -> <<100>>
      [] s = "h" -> <<104>>
      [] s = "buz" -> <<98, 117, 122>>
      [] s = "fiz" -> <<102, 105, 122>>
      [] s = "seq" -> <<115, 101, 113>>
      [] s = "tag" -> <<116, 97, 103>>
      [] s = "test" -> <<116, 101, 115, 116>>
      [] s = "a" -> <<97>>
      [] s = "b" -> <<98>>
      [] s = "node_data" -> <<110, 111, 100, 101, 95, 100, 97, 116, 97>>
      [] s = "other" -> <<111, 116, 104, 101, 114>>

-----------------------------------------------------------------------------
(* Struct declarations that derive EpeeObject.  A field is its identifier,   *)
(* its epee_alt_name (<<>> or <<"s">>), its type, its epee_default (<<>> or  *)
(* <<d>>) and whether it carries epee_flatten.                               *)

Field(ident, t) == [ident |-> ident, alt |-> <<>>, t |-> t, def |-> <<>>, flat |-> FALSE]
AltNamed(f, s) == [f EXCEPT !.alt = <<s>>]
Defaulted(f, d) == [f EXCEPT !.def = <<d>>]
Flattened(f) == [f EXCEPT !.flat = TRUE]

\* tests/options.rs, tests/epee_default.rs, tests/alt_name.rs, tests/flattend.rs,
\* tests/seq.rs and the crate's doc example.
TestStructs ==
    {"Test", "T", "Optional", "NotOptional", "NotPresent", "AltName", "AltName2",
     "Child", "Parent", "ParentChild", "Child1", "Child2", "Parent12", "ValSeq",
     "ObjSeq"}

\* Further declarations the derive accepts: the hand-flattened forms of Parent
\* and Parent12 in the combined declaration order, and structs that put an
\* Option or a Vec beside a defaulted, a renamed or a flattened field.
MoreStructs ==
    {"ChildParent", "Parent12Flat", "OptChild", "OptParent", "OptParentFlat",
     "AltSeq", "AltSeq2", "Pair", "StrSeq"}

Structs == TestStructs \cup MoreStructs

StructFields(S) ==
    CASE S = "Test" -> <<Field("val", <<"u64">>)>>
      [] S = "T" -> <<Field("val", <<"opt", <<"u8">>>>)>>
      [] S = "Optional" ->
            <<Field("val", <<"u8">>), Defaulted(Field("optional_val", <<"i32">>), -4)>>
      [] S = "NotOptional" ->
            <<Field("val", <<"u8">>), Field("optional_val", <<"i32">>)>>
      [] S = "NotPresent" -> <<Field("val", <<"u8">>)>>
      [] S = "AltName" ->
            <<AltNamed(Field("val", <<"u8">>), "val2"), Field("d", <<"u64">>)>>
      [] S = "AltName2" -> <<Field("val2", <<"u8">>), Field("d", <<"u64">>)>>
      [] S = "Child" -> <<Field("val", <<"u64">>), Field("val2", <<"bytes">>)>>
      [] S = "Parent" ->
            <<Flattened(Field("child", <<"obj", "Child">>)), Field("h", <<"f64">>)>>
      [] S = "ParentChild" ->
            <<Field("h", <<"f64">>), Field("val", <<"u64">>), Field("val2", <<"bytes">>)>>
      [] S = "Child1" -> <<Field("val", <<"u64">>), Field("val2", <<"bytes">>)>>
      [] S = "Child2" -> <<Field("buz", <<"u16">>), Field("fiz", <<"string">>)>>
      [] S = "Parent12" ->
            <<Flattened(Field("child1", <<"obj", "Child1">>)),
              Flattened(Field("child2", <<"obj", "Child2">>)),
              Field("h", <<"f64">>)>>
      [] S = "ValSeq" -> <<Field("seq", <<"vec", <<"i64">>>>)>>
      [] S = "ObjSeq" -> <<Field("seq", <<"vec", <<"obj", "ObjSeq">>>>)>>
      [] S = "ChildParent" ->
            <<Field("val", <<"u64">>), Field("val2", <<"bytes">>), Field("h", <<"f64">>)>>
      [] S = "Parent12Flat" ->
            <<Field("val", <<"u64">>), Field("val2", <<"bytes">>),
              Field("buz", <<"u16">>), Field("fiz", <<"string">>),
              Field("h", <<"f64">>)>>
      [] S = "OptChild" ->
            <<Field("tag", <<"opt", <<"u8">>>>), Defaulted(Field("test", <<"u8">>), 0),
              Field("seq", <<"vec", <<"i64">>>>)>>
      [] S = "OptParent" ->
            <<Field("val", <<"u8">>), Flattened(Field("child", <<"obj", "OptChild">>)),
              Field("d", <<"u64">>)>>
      [] S = "OptParentFlat" ->
            <<Field("val", <<"u8">>), Field("tag", <<"opt", <<"u8">>>>),
              Defaulted(Field("test", <<"u8">>), 0), Field("seq", <<"vec", <<"i64">>>>),
              Field("d", <<"u64">>)>>
      [] S = "AltSeq" ->
            <<AltNamed(Field("val", <<"u8">>), "val2"), Field("seq", <<"vec", <<"i64">>>>)>>
      [] S = "AltSeq2" ->
            <<Field("val2", <<"u8">>), Field("seq", <<"vec", <<"i64">>>>)>>
      [] S = "Pair" -> <<Field("a", <<"u32">>), Field("b", <<"u32">>)>>
      [] S = "StrSeq" -> <<Field("seq", <<"vec", <<"string">>>>)>>
      [] S = "SkipObject" -> <<>>

-----------------------------------------------------------------------------
(* value.rs: should_write and write; derive: number_of_fields, write_fields  *)

RECURSIVE should_write(_, _)
\* EpeeValue::should_write
should_write(t, v) ==
    CASE t[1] = "vec" -> Len(v) # 0
      [] t[1] = "opt" -> IF v = <<>> THEN FALSE ELSE should_write(t[2], v[1])
      [] OTHER -> TRUE

\* The name a field is encoded with.
epee_name(f) == IF f.alt # <<>> THEN f.alt[1] ELSE f.ident

\* write_field_name
write_field_name(name) == <<Len(NameBytes(name))>> \o NameBytes(name)

RECURSIVE Concat(_)
\* What a writer holds after the chunks were written to it one after the other.
Concat(chunks) == IF Len(chunks) = 0 THEN <<>> ELSE chunks[1] \o Concat(Tail(chunks))

RECURSIVE write(_, _)
RECURSIVE write_items(_, _)
RECURSIVE number_of_fields(_, _)
RECURSIVE count_fields(_, _, _)
RECURSIVE write_fields(_, _)
RECURSIVE write_fields_from(_, _, _)

\* for item in self.iter() { item.write(w)?; }
write_items(t, items) ==
    IF Len(items) = 0 THEN <<>> ELSE write(t, items[1]) \o write_items(t, Tail(items))

\* EpeeValue::write.  Writing None panics; write_field never asks for it.
write(t, v) ==
    CASE t[1] \in Numbers -> to_le_bytes(t[1], v)
      [] t[1] = "bool" -> IF v THEN <<1>> ELSE <<0>>
      [] t[1] \in {"string", "bytes"} -> write_varint(U64(Len(v))) \o v
      [] t[1] = "obj" ->
            write_varint(U64(number_of_fields(t[2], v))) \o Concat(write_fields(t[2], v))
      [] t[1] = "vec" -> write_varint(U64(Len(v))) \o write_items(t[2], v)
      [] t[1] = "opt" /\ v # <<>> -> write(t[2], v[1])

\* write_epee_value
write_epee_value(t, v) == <<as_u8(MARKER(t))>> \o write(t, v)

\* A write_field that puts the marker before the name.
write_field_marker_first(t, v, field_name) ==
    IF should_write(t, v)
    THEN <<<<as_u8(MARKER(t))>> \o write_field_name(field_name) \o write(t, v)>>
    ELSE <<>>

\* write_field: the fields written, none or one.
write_field(t, v, field_name) ==
    IF should_write(t, v)
    THEN <<write_field_name(field_name) \o write_epee_value(t, v)>>
    ELSE <<>>

\* A #count_fields that keeps counting the flattened field itself.
RECURSIVE count_fields_keeps_placeholder(_, _, _)
count_fields_keeps_placeholder(S, r, i) ==
    IF i > Len(StructFields(S)) THEN 0
    ELSE LET f == StructFields(S)[i]
             here == IF f.flat THEN number_of_fields(f.t[2], r[f.ident])
                     ELSE IF f.def # <<>> /\ r[f.ident] = f.def[1] THEN -1
                     ELSE 0
         IN here + count_fields_keeps_placeholder(S, r, i + 1)

\* The generated #count_fields, field by field from field i.
count_fields(S, r, i) ==
    IF i > Len(StructFields(S)) THEN 0
    ELSE LET f == StructFields(S)[i]
             here == IF f.flat THEN number_of_fields(f.t[2], r[f.ident]) - 1
                     ELSE IF f.def # <<>> /\ r[f.ident] = f.def[1] THEN -1
                     ELSE 0
         IN here + count_fields(S, r, i + 1)

\* The generated number_of_fields.
number_of_fields(S, r) == Len(StructFields(S)) + count_fields(S, r, 1)

\* A #write_fields that writes the fields of a flattened child after the
\* fields of the struct itself.
RECURSIVE write_fields_from_flatten_last(_, _, _)
write_fields_from_flatten_last(S, r, i) ==
    IF i > Len(StructFields(S)) THEN <<>>
    ELSE LET f == StructFields(S)[i] IN
         IF f.flat
         THEN write_fields_from_flatten_last(S, r, i + 1) \o write_fields(f.t[2], r[f.ident])
         ELSE (IF f.def # <<>> /\ r[f.ident] = f.def[1] THEN <<>>
               ELSE write_field(f.t, r[f.ident], epee_name(f)))
              \o write_fields_from_flatten_last(S, r, i + 1)

\* The generated #write_fields, field by field from field i: the fields
\* written, in the order they are written.
write_fields_from(S, r, i) ==
    IF i > Len(StructFields(S)) THEN <<>>
    ELSE LET f == StructFields(S)[i]
             here == IF f.flat THEN write_fields(f.t[2], r[f.ident])
                     ELSE IF f.def # <<>> /\ r[f.ident] = f.def[1] THEN <<>>
                     ELSE write_field(f.t, r[f.ident], epee_name(f))
         IN here \o write_fields_from(S, r, i + 1)

\* The generated write_fields.
write_fields(S, r) == write_fields_from(S, r, 1)

\* write_head_object
write_head_object(S, r) == HEADER \o write(<<"obj", S>>, r)

\* to_bytes
to_bytes(S, r) == write_head_object(S, r)

-----------------------------------------------------------------------------
(* lib.rs, value.rs and the derive: reading.  A reader is the sequence of    *)
(* bytes not consumed yet; a read returns Ok(value, reader left) or Err.     *)

\* read_marker
read_marker(buf) ==
    Then(read_byte(buf), LAMBDA b :
    Then(marker_try_from(b.val), LAMBDA m : Ok(m.val, b.rest)))

\* T::Builder::default(): a slot per field, None, or Some(default), or the
\* builder of a flattened child.
RECURSIVE builder_default(_)
builder_default(S) ==
    LET fs == StructFields(S) IN
    [id \in {fs[i].ident : i \in 1..Len(fs)} |->
        LET f == CHOOSE g \in {fs[i] : i \in 1..Len(fs)} : g.ident = id IN
        IF f.flat THEN builder_default(f.t[2])
        ELSE IF f.def # <<>> THEN <<f.def[1]>>
        ELSE <<>>]

RECURSIVE read(_, _, _)
RECURSIVE read_items(_, _, _, _, _)
RECURSIVE read_object(_, _, _)
RECURSIVE read_fields(_, _, _, _, _)
RECURSIVE add_field(_, _, _, _)
RECURSIVE match_name_keep_first(_, _, _, _, _)
RECURSIVE match_name(_, _, _, _, _)
RECURSIVE read_catch_all(_, _, _, _, _)
RECURSIVE finish(_, _)
RECURSIVE finish_from(_, _, _, _)
RECURSIVE skip_epee_value(_, _)
RECURSIVE skip_items(_, _, _, _)

\* A loop that holds the marker of no element against the element type.
RECURSIVE read_items_checks_empty(_, _, _, _, _)
read_items_checks_empty(t, marker, buf, n, acc) ==
    IF n = 0
    THEN IF marker # MARKER(t) /\ acc = <<>>
         THEN Err(ErrFormat("Marker does not match expected Marker"))
         ELSE Ok(acc, buf)
    ELSE Then(read(t, marker, buf), LAMBDA x :
             read_items_checks_empty(t, marker, x.rest, n - 1, Append(acc, x.val)))

\* A loop that reads every element with the marker of the element type.
RECURSIVE read_items_own_marker(_, _, _, _, _)
read_items_own_marker(t, marker, buf, n, acc) ==
    IF n = 0 THEN Ok(acc, buf)
    ELSE Then(read(t, MARKER(t), buf), LAMBDA x :
             read_items_own_marker(t, marker, x.rest, n - 1, Append(acc, x.val)))

\* for _ in 0..len { res.push(<$val>::read(r, &individual_marker)?); }
read_items(t, marker, buf, n, acc) ==
    IF n = 0 THEN Ok(acc, buf)
    ELSE Then(read(t, marker, buf), LAMBDA x :
             read_items(t, marker, x.rest, n - 1, Append(acc, x.val)))

\* String / byte-string bodies: the varint length, the cap, the bytes.
read_string_body(buf, is_text) ==
    Then(read_varint(buf), LAMBDA len :
        IF ~LeqU64(len.val, MAX_STRING_LEN_POSSIBLE)
        THEN Err(ErrFormat(IF is_text THEN "String exceeded max length"
                           ELSE "Byte array exceeded max length"))
        ELSE IF is_text THEN read_string(len.rest, LoopCount(len.val, Len(len.rest)))
        ELSE read_var_bytes(len.rest, LoopCount(len.val, Len(len.rest))))

\* EpeeValue::read(r, marker)
read(t, marker, buf) ==
    CASE t[1] = "opt" ->
            Then(read(t[2], marker, buf), LAMBDA x : Ok(<<x.val>>, x.rest))
      [] t[1] = "vec" ->
            IF ~marker.is_seq
            THEN Err(ErrFormat("Marker is not sequence when a sequence was expected"))
            ELSE Then(read_varint(buf), LAMBDA len :
                     read_items(t[2], Marker(marker.inner), len.rest,
                                LoopCount(len.val, Len(len.rest)), <<>>))
      [] OTHER ->
            IF marker # MARKER(t)
            THEN Err(ErrFormat("Marker does not match expected Marker"))
            ELSE CASE t[1] \in Numbers ->
                        Then(read_bytes(buf, Width(t[1])), LAMBDA b :
                            Ok(from_le_bytes(t[1], b.val), b.rest))
                   [] t[1] = "bool" ->
                        Then(read_byte(buf), LAMBDA b : Ok(b.val # 0, b.rest))
                   [] t[1] = "bytes" -> read_string_body(buf, FALSE)
                   [] t[1] = "string" -> read_string_body(buf, TRUE)
                   [] t[1] = "obj" ->
                        Then(read_object(t[2], buf, 0), LAMBDA o : Ok(o.val.obj, o.rest))

\* read_epee_value
read_epee_value(t, buf) ==
    Then(read_marker(buf), LAMBDA m : read(t, m.val, m.rest))

\* A match whose arms leave a slot that is filled as it is, and consume the
\* value.
match_name_keep_first(S, b, name, buf, i) ==
    IF i > Len(StructFields(S)) THEN read_catch_all(S, b, name, buf, 1)
    ELSE LET f == StructFields(S)[i] IN
         IF ~f.flat /\ NameBytes(epee_name(f)) = name
         THEN Then(read_epee_value(f.t, buf), LAMBDA x :
                  Ok([b |-> IF b[f.ident] = <<>> THEN [b EXCEPT ![f.ident] = <<x.val>>]
                            ELSE b,
                      hit |-> TRUE], x.rest))
         ELSE match_name_keep_first(S, b, name, buf, i + 1)

\* The generated match on the name, arm by arm from field i: the first field
\* that is not flattened and whose epee name is the name read takes the value.
match_name(S, b, name, buf, i) ==
    IF i > Len(StructFields(S)) THEN read_catch_all(S, b, name, buf, 1)
    ELSE LET f == StructFields(S)[i] IN
         IF ~f.flat /\ NameBytes(epee_name(f)) = name
         THEN Then(read_epee_value(f.t, buf), LAMBDA x :
                  Ok([b |-> [b EXCEPT ![f.ident] = <<x.val>>], hit |-> TRUE], x.rest))
         ELSE match_name(S, b, name, buf, i + 1)

\* A #read_catch_all that offers the name to no flattened child.
read_catch_all_no_forward(S, b, name, buf, i) == Ok([b |-> b, hit |-> FALSE], buf)

\* The generated #read_catch_all, from field i: the flattened children are
\* offered the name in declaration order; then Ok(false).
read_catch_all(S, b, name, buf, i) ==
    IF i > Len(StructFields(S)) THEN Ok([b |-> b, hit |-> FALSE], buf)
    ELSE LET f == StructFields(S)[i] IN
         IF ~f.flat THEN read_catch_all(S, b, name, buf, i + 1)
         ELSE Then(add_field(f.t[2], b[f.ident], name, buf), LAMBDA c :
                  IF c.val.hit
                  THEN Ok([b |-> [b EXCEPT ![f.ident] = c.val.b], hit |-> TRUE], c.rest)
                  ELSE read_catch_all(S, b, name, buf, i + 1))

\* EpeeObjectBuilder::add_field
add_field(S, b, name, buf) == match_name(S, b, name, buf, 1)

\* An #object_finish that leaves an empty slot in the record.
RECURSIVE finish_from_unchecked(_, _, _, _)
finish_from_unchecked(S, b, i, acc) ==
    IF i > Len(StructFields(S)) THEN Ok(acc, <<>>)
    ELSE LET f == StructFields(S)[i] IN
         IF f.flat
         THEN Then(finish(f.t[2], b[f.ident]), LAMBDA c :
                  finish_from_unchecked(S, b, i + 1, [acc EXCEPT ![f.ident] = c.val]))
         ELSE finish_from_unchecked(S, b, i + 1, acc)

\* The generated #object_finish, field by field from field i.
finish_from(S, b, i, acc) ==
    IF i > Len(StructFields(S)) THEN Ok(acc, <<>>)
    ELSE LET f == StructFields(S)[i] IN
         IF f.flat
         THEN Then(finish(f.t[2], b[f.ident]), LAMBDA c :
                  finish_from(S, b, i + 1, [acc EXCEPT ![f.ident] = c.val]))
         ELSE IF b[f.ident] = <<>>
         THEN Err(ErrFormat("Required field was not found!"))
         ELSE finish_from(S, b, i + 1, [acc EXCEPT ![f.ident] = b[f.ident][1]])

\* EpeeObjectBuilder::finish: the record, every field taken from its slot.
finish(S, b) == finish_from(S, b, 1, b)

\* A turn that leaves in the reader the value the builder did not take.
read_field_no_skip(S, b, buf, sk) ==
    Then(read_byte(buf), LAMBDA len :
    Then(read_string(len.rest, len.val), LAMBDA name :
    Then(add_field(S, b, name.val, name.rest), LAMBDA a :
        Ok([b |-> a.val.b, sk |-> sk], a.rest))))

\* One turn of read_object's loop: the field name, add_field, and the skip
\* of a value the builder did not take.
read_field(S, b, buf, sk) ==
    Then(read_byte(buf), LAMBDA len :
    Then(read_string(len.rest, len.val), LAMBDA name :
    Then(add_field(S, b, name.val, name.rest), LAMBDA a :
        IF a.val.hit THEN Ok([b |-> a.val.b, sk |-> sk], a.rest)
        ELSE Then(skip_epee_value(a.rest, sk), LAMBDA s :
                 Ok([b |-> a.val.b, sk |-> s.val], s.rest)))))

\* for _ in 0..number_o_field { ... }
read_fields(S, b, buf, sk, n) ==
    IF n = 0 THEN Ok([b |-> b, sk |-> sk], buf)
    ELSE Then(read_field(S, b, buf, sk), LAMBDA x :
             read_fields(S, x.val.b, x.rest, x.val.sk, n - 1))

\* read_object
read_object(S, buf, sk) ==
    Then(read_varint(buf), LAMBDA n :
    Then(read_fields(S, builder_default(S), n.rest, sk, LoopCount(n.val, Len(n.rest))),
         LAMBDA x :
    Then(finish(S, x.val.b), LAMBDA o : Ok([obj |-> o.val, sk |-> x.val.sk], x.rest))))

\* The body of skip_epee_value's loop, n times.
skip_items(marker, buf, sk, n) ==
    IF n = 0 THEN Ok(sk, buf)
    ELSE CASE marker.inner \in {"I64", "U64", "F64", "I32", "U32", "I16", "U16",
                                "I8", "U8", "Bool"} ->
                Then(read_bytes(buf, CASE marker.inner \in {"I64", "U64", "F64"} -> 8
                                       [] marker.inner \in {"I32", "U32"} -> 4
                                       [] marker.inner \in {"I16", "U16"} -> 2
                                       [] OTHER -> 1),
                     LAMBDA b : skip_items(marker, b.rest, sk, n - 1))
           [] marker.inner = "String" ->
                Then(read(<<"bytes">>, marker, buf), LAMBDA s :
                    skip_items(marker, s.rest, sk, n - 1))
           [] marker.inner = "Object" ->
                IF sk + 1 > MAX_DEPTH_OF_SKIPPED_OBJECTS
                THEN Err(ErrFormat("Depth of skipped objects exceeded maximum"))
                ELSE Then(read_object("SkipObject", buf, sk + 1), LAMBDA o :
                         skip_items(marker, o.rest, o.val.sk - 1, n - 1))

\* skip_epee_value
skip_epee_value(buf, sk) ==
    Then(read_marker(buf), LAMBDA m :
        IF m.val.is_seq
        THEN Then(read_varint(m.rest), LAMBDA len :
                 skip_items(m.val, len.rest, sk, LoopCount(len.val, Len(len.rest))))
        ELSE skip_items(m.val, m.rest, sk, 1))

\* A read_header that takes nine bytes without comparing them.
read_header_unchecked(buf) ==
    Then(read_exact(buf, 9), LAMBDA h : Ok(<<>>, h.rest))

\* read_header
read_header(buf) ==
    Then(read_exact(buf, 9), LAMBDA h :
        IF h.val # HEADER THEN Err(ErrFormat("Data does not contain header"))
        ELSE Ok(<<>>, h.rest))

\* from_bytes, in one piece: read_header, then read_object with a counter of
\* skipped objects that starts at 0.
from_bytes(S, buf) ==
    Then(read_header(buf), LAMBDA h :
    Then(read_object(S, h.rest, 0), LAMBDA o : Ok(o.val.obj, o.rest)))

-----------------------------------------------------------------------------
(* The codec run: to_bytes on a record (or a document received as it is),   *)
(* from_bytes on the bytes, one turn of the root object's field loop at a   *)
(* time, and to_bytes on the record decoded.                                 *)

MaxSeqLen == 2
MaxNest == 1

\* Sequences of at most n elements of S.
SeqsUpTo(S, n) == UNION {[1..k -> S] : k \in 0..n}

\* IEEE 754 bits of 38.9, little-endian.
F64_38_9 == <<51, 51, 51, 51, 51, 115, 67, 64>>
AllOnes == <<255, 255, 255, 255, 255, 255, 255, 255>>

RECURSIVE Values(_, _)
RECURSIVE Records(_, _)
RECURSIVE RecordsFrom(_, _, _)

\* The values of a type the runs draw from; nest bounds the nesting of
\* structs inside sequences.
Values(t, nest) ==
    CASE t[1] = "u8" -> {0, 21}
      [] t[1] = "u16" -> {0, 513}
      [] t[1] = "u32" -> {7, 70000}
      [] t[1] = "i32" -> {-4, -3}
      [] t[1] = "u64" -> {U64(0), U64(94)}
      [] t[1] = "i64" -> {U64(1), AllOnes}
      [] t[1] = "f64" -> {U64(0), F64_38_9}
      [] t[1] = "bool" -> BOOLEAN
      [] t[1] = "string" -> {<<>>, <<111, 107>>}
      [] t[1] = "bytes" -> SeqsUpTo({4, 5}, MaxSeqLen)
      [] t[1] = "opt" -> {<<>>} \cup {<<v>> : v \in Values(t[2], nest)}
      [] t[1] = "vec" /\ t[2][1] = "obj" ->
            IF nest = 0 THEN {<<>>}
            ELSE SeqsUpTo(Records(t[2][2], nest - 1), MaxSeqLen)
      [] t[1] = "vec" /\ t[2][1] # "obj" -> SeqsUpTo(Values(t[2], nest), MaxSeqLen)
      [] t[1] = "obj" -> Records(t[2], nest)

RecordsFrom(S, i, nest) ==
    IF i > Len(StructFields(S)) THEN {<<>>}
    ELSE LET f == StructFields(S)[i] IN
         {(f.ident :> v) @@ r : v \in Values(f.t, nest), r \in RecordsFrom(S, i + 1, nest)}

Records(S, nest) == RecordsFrom(S, 1, nest)

\* Documents received as they are: tests/options.rs and the crate's doc example.
BaseDocs ==
    {HEADER \o <<0>>,
     HEADER \o <<4, 3, 118, 97, 108, 8, 21>>,
     HEADER \o <<4, 3, 118, 97, 108, 5, 4, 0, 0, 0, 0, 0, 0, 0>>}

\* A document as a peer writes it: the header, the count of the fields that
\* follow, the fields.
Doc(fields) == HEADER \o write_varint(U64(Len(fields))) \o Concat(fields)

\* A field as a peer writes it: the name, then the value with its marker.
DocField(name, value) == write_field_name(name) \o value

\* The fields in the order p.
Permute(fields, p) == [i \in 1..Len(fields) |-> fields[p[i]]]

\* The fields with one more after the first j.
InsertAt(fields, j, field) ==
    SubSeq(fields, 1, j) \o <<field>> \o SubSeq(fields, j + 1, Len(fields))

\* The structs whose records arrive with their fields in another order, and
\* those whose records arrive with a field more.
ShuffleStructs ==
    {"Optional", "Pair", "AltName", "Child2", "Parent", "ParentChild", "ChildParent",
     "OptChild"}
ExtraStructs == {"Test", "T", "Optional", "Pair", "AltName", "Parent", "ValSeq"}

\* Values a peer may send under a name the struct decoded into does not
\* declare: numbers, a bool, strings, objects, sequences of numbers and of
\* objects.
UnknownValues ==
    {write_epee_value(<<"u8">>, 21),
     write_epee_value(<<"i64">>, AllOnes),
     write_epee_value(<<"u32">>, 70000),
     write_epee_value(<<"f64">>, F64_38_9),
     write_epee_value(<<"bool">>, TRUE),
     write_epee_value(<<"string">>, <<111, 107>>),
     write_epee_value(<<"bytes">>, <<>>),
     write_epee_value(<<"obj", "Pair">>, [a |-> 7, b |-> 70000]),
     write_epee_value(<<"obj", "Child2">>, [buz |-> 513, fiz |-> <<111, 107>>]),
     write_epee_value(<<"vec", <<"u16">>>>, <<0, 513>>),
     write_epee_value(<<"vec", <<"u64">>>>, <<>>),
     write_epee_value(<<"vec", <<"bool">>>>, <<TRUE, FALSE, TRUE>>),
     write_epee_value(<<"vec", <<"obj", "Pair">>>>,
                      <<[a |-> 7, b |-> 7], [a |-> 70000, b |-> 7]>>)}

\* Sequences of strings under an unknown name: none, one, two elements.
StringSeqValues ==
    {write_epee_value(<<"vec", <<"string">>>>, v) :
        v \in {<<>>, <<<<111, 107>>>>, <<<<>>, <<111, 107>>>>}}

MaxSkipNest == 22
Siblings == 25

\* The payload of an object that nests k objects, itself included: one field
\* x that holds the next object; the innermost object has no field.
RECURSIVE ObjBody(_)
ObjBody(k) == IF k <= 1 THEN <<0>> ELSE <<4, 1, 120, 12>> \o ObjBody(k - 1)

\* Values that nest k objects: an object; a sequence of two objects; an
\* object with two object fields x and y; an object whose field is a
\* sequence of three objects; a sequence of Siblings objects, the first of
\* which nests k objects and the others none.
NestChain(k) == <<12>> \o ObjBody(k)
NestSeq(k) == <<140, 8>> \o ObjBody(k) \o ObjBody(k)
NestPair(k) ==
    <<12, 8, 1, 120, 12>> \o ObjBody(k - 1) \o <<1, 121, 12>> \o ObjBody(k - 1)
NestSeqInside(k) ==
    <<12, 4, 1, 120, 140, 12>> \o ObjBody(k - 1) \o ObjBody(k - 1) \o ObjBody(k - 1)
RECURSIVE Repeat(_, _)
Repeat(b, n) == IF n = 0 THEN <<>> ELSE b \o Repeat(b, n - 1)
NestMany(k) ==
    <<140>> \o write_varint(U64(Siblings)) \o ObjBody(k) \o Repeat(<<0>>, Siblings - 1)
NestValues(k) ==
    {NestChain(k), NestSeq(k), NestMany(k)}
    \cup (IF k >= 2 THEN {NestPair(k), NestSeqInside(k)} ELSE {})

\* val: u8 = 21, the one field of NotPresent.
ValField == DocField("val", write_epee_value(<<"u8">>, 21))

\* Documents with an unknown field that nests k objects before val, and
\* with two such fields.
NestDocs(k) ==
    {Doc(<<DocField("other", v), ValField>>) : v \in NestValues(k)}
    \cup {Doc(<<DocField("other", NestChain(k)), DocField("node_data", NestChain(k)),
                ValField>>)}

\* Documents with a sequence of strings under an unknown name, before and
\* after val.
StringSeqDocs ==
    {Doc(<<DocField("other", v), ValField>>) : v \in StringSeqValues}
    \cup {Doc(<<ValField, DocField("other", v)>>) : v \in StringSeqValues}

\* An ObjSeq whose seq is on the wire with no element.
EmptyObjSeq == <<4>> \o DocField("seq", <<140, 0>>)

\* What follows the marker of the field seq: no element; one and two i64;
\* one object; one string.
SeqPayloads ==
    {<<0>>, <<4>> \o U64(1), <<8>> \o U64(1) \o AllOnes, <<4>> \o EmptyObjSeq,
     <<4, 8, 111, 107>>}

\* The document { seq } with the marker byte m and the payload p.
SeqDoc(m, p) == Doc(<<DocField("seq", <<m>> \o p)>>)
SeqDocs == {SeqDoc(m, p) : m \in (1..12) \cup (129..140), p \in SeqPayloads}

\* The document { val: u64 = 94, val2 } of Child with the marker byte m
\* before the length and the bytes b of val2.
BytesDoc(m, b) ==
    Doc(<<DocField("val", write_epee_value(<<"u64">>, U64(94))),
          DocField("val2", <<m>> \o write(<<"bytes">>, b))>>)
BytesDocs == {BytesDoc(m, b) : m \in {10, 136}, b \in {<<>>, <<4, 5>>}}

\* The document { val: u8 = 21 } cut after n bytes, and with byte i changed.
Cut(doc, n) == SubSeq(doc, 1, n)
Changed(doc, i) == [doc EXCEPT ![i] = (doc[i] + 1) % 256]
HeaderDocs ==
    {Cut(Doc(<<ValField>>), n) : n \in 0..9}
    \cup {Changed(Doc(<<ValField>>), i) : i \in 1..9}
    \cup {Changed(HEADER, i) : i \in 1..9}

WireDocs ==
    BaseDocs \cup SeqDocs \cup BytesDocs \cup StringSeqDocs \cup HeaderDocs

VarintIdle == vn = <<>> /\ vtail = <<>> /\ vout = <<>> /\ vin = <<>> /\ vpc = "idle"
SkipIdle ==
    /\ sty = "" /\ sdoc = <<>> /\ srd = <<>> /\ loops = <<>> /\ sbuilder = <<>>
    /\ skipped_objects = 0 /\ sres = <<>> /\ spc = "idle"
MarkerIdle == mk = <<>> /\ mbyte = 0 /\ mres = <<>> /\ mpc = "idle"

Init ==
    /\ \/ ty \in Structs /\ rec \in Records(ty, MaxNest)
       \/ ty = "" /\ rec = <<>>
    /\ src = ""
    /\ wire = <<>>
    /\ dty = ""
    /\ rd = <<>>
    /\ nleft = 0
    /\ builder = <<>>
    /\ skipped = 0
    /\ res = <<>>
    /\ wire2 = <<>>
    /\ pc = "start"
    /\ VarintIdle
    /\ SkipIdle
    /\ MarkerIdle

\* let bytes = to_bytes(&val).unwrap();
ToBytes ==
    /\ pc = "start"
    /\ ty # ""
    /\ wire' = to_bytes(ty, rec)
    /\ src' = "rec"
    /\ pc' = "encoded"
    /\ UNCHANGED <<ty, rec, dty, rd, nleft, builder, skipped, res, wire2, varintVars, skipVars, markerVars>>

\* A document arrives from elsewhere.
Receive(doc) ==
    /\ pc = "start"
    /\ ty = ""
    /\ wire' = doc
    /\ src' = "doc"
    /\ pc' = "encoded"
    /\ UNCHANGED <<ty, rec, dty, rd, nleft, builder, skipped, res, wire2, varintVars, skipVars, markerVars>>

\* The fields of a record arrive from a peer that counts the fields it
\* writes and writes them in the order p.
ReceiveShuffled ==
    /\ pc = "start"
    /\ ty \in ShuffleStructs
    /\ \E fields \in {write_fields(ty, rec)} :
       \E p \in Permutations(1..Len(fields)) :
          wire' = Doc(Permute(fields, p))
    /\ src' = "perm"
    /\ pc' = "encoded"
    /\ UNCHANGED <<ty, rec, dty, rd, nleft, builder, skipped, res, wire2, varintVars, skipVars, markerVars>>

\* The fields of a record arrive with one more field, other, after the
\* first j of them.
ReceiveWithUnknown ==
    /\ pc = "start"
    /\ ty \in ExtraStructs
    /\ \E fields \in {write_fields(ty, rec)} :
       \E j \in 0..Len(fields), u \in UnknownValues :
          wire' = Doc(InsertAt(fields, j, DocField("other", u)))
    /\ src' = "extra"
    /\ pc' = "encoded"
    /\ UNCHANGED <<ty, rec, dty, rd, nleft, builder, skipped, res, wire2, varintVars, skipVars, markerVars>>

\* The name bytes of a field as write_field wrote it.
FieldName(field) == SubSeq(field, 2, 1 + field[1])

\* The fields without the i-th.
RemoveAt(fields, i) == SubSeq(fields, 1, i - 1) \o SubSeq(fields, i + 1, Len(fields))

\* The structs whose records arrive with a field twice.
DupStructs == {"Pair", "Optional", "AltName", "Parent", "ValSeq", "Child2"}

\* The fields of a record arrive with one name twice: before the i-th field,
\* which is moved to any later place, stands the field of that name of
\* another record, with another value.
ReceiveDuplicated ==
    /\ pc = "start"
    /\ ty \in DupStructs
    /\ \E fields \in {write_fields(ty, rec)} :
       \E i \in 1..Len(fields), r0 \in Records(ty, MaxNest) :
       \E old \in {write_fields(ty, r0)} :
       \E o \in 1..Len(old), j \in 0..(Len(fields) - 1) :
       \E k \in (j + 1)..Len(fields) :
          /\ FieldName(old[o]) = FieldName(fields[i])
          /\ old[o] # fields[i]
          /\ wire' = Doc(InsertAt(InsertAt(RemoveAt(fields, i), j, old[o]), k, fields[i]))
    /\ src' = "dup"
    /\ pc' = "encoded"
    /\ UNCHANGED <<ty, rec, dty, rd, nleft, builder, skipped, res, wire2, varintVars, skipVars, markerVars>>

\* The structs whose encoded records arrive cut short.
CutStructs == {"Test", "Child2", "Parent", "Optional", "ValSeq", "StrSeq", "OptChild"}

\* The structs whose fields also arrive cut short after a field other.
CutOtherStructs == {"Test", "Child2", "Optional", "StrSeq"}

\* The fields of a record after a field other that holds two objects.
WithOther(S, r) ==
    Doc(<<DocField("other", write_epee_value(<<"vec", <<"obj", "Pair">>>>,
                                <<[a |-> 7, b |-> 7], [a |-> 70000, b |-> 7]>>))>>
        \o write_fields(S, r))

\* What to_bytes made of a record, or its fields after the field other,
\* arrives without its last bytes: only the first n of them.
ReceiveCut ==
    /\ pc = "start"
    /\ ty \in CutStructs
    /\ \E x \in {"cut"} \cup (IF ty \in CutOtherStructs THEN {"cutx"} ELSE {}) :
       \E b \in {IF x = "cut" THEN to_bytes(ty, rec) ELSE WithOther(ty, rec)} :
       \E n \in 0..(Len(b) - 1) :
          /\ wire' = Cut(b, n)
          /\ src' = x
    /\ pc' = "encoded"
    /\ UNCHANGED <<ty, rec, dty, rd, nleft, builder, skipped, res, wire2, varintVars, skipVars, markerVars>>

\* The structs a shuffled or extended document of a record of S is decoded
\* into: S and the structs that declare the same wire names.
DecodedAs(S) ==
    {S} \cup CASE S \in {"Parent", "ParentChild", "ChildParent"} ->
                    {"Parent", "ParentChild", "ChildParent"}
               [] S \in {"AltName", "AltName2"} -> {"AltName", "AltName2"}
               [] S \in {"Optional", "NotOptional"} -> {"Optional", "NotOptional", "NotPresent"}
               [] OTHER -> {}

\* The structs a document received as it is gets decoded into.
DocTargets ==
    {"T", "Test", "NotPresent", "Optional", "Child", "ValSeq", "ObjSeq", "StrSeq"}

\* from_bytes::<S>(wire), up to read_object's loop: the header, the default
\* builder, the field count.
FromBytes(S) ==
    /\ pc = "encoded"
    /\ src \in {"perm", "extra", "cut", "cutx"} => S \in DecodedAs(ty)
    /\ src = "dup" => S = ty
    /\ src = "doc" => S \in DocTargets
    /\ dty' = S
    /\ \E h \in {read_header(wire)} : \E n \in {read_varint(h.rest)} :
          IF ~h.ok
          THEN /\ res' = h /\ pc' = "failed"
               /\ UNCHANGED <<rd, nleft, builder, skipped>>
          ELSE IF ~n.ok
          THEN /\ res' = n /\ pc' = "failed"
               /\ builder' = builder_default(S) /\ skipped' = 0
               /\ UNCHANGED <<rd, nleft>>
          ELSE /\ builder' = builder_default(S)
               /\ skipped' = 0
               /\ nleft' = LoopCount(n.val, Len(n.rest))
               /\ rd' = n.rest
               /\ pc' = "fields"
               /\ UNCHANGED res
    /\ UNCHANGED <<ty, rec, src, wire, wire2, varintVars, skipVars, markerVars>>

\* One turn of read_object's loop on the root object.
ReadField ==
    /\ pc = "fields"
    /\ nleft > 0
    /\ \E x \in {read_field(dty, builder, rd, skipped)} :
       IF ~x.ok
       THEN /\ res' = x /\ pc' = "failed"
            /\ UNCHANGED <<rd, nleft, builder, skipped>>
       ELSE /\ builder' = x.val.b
            /\ skipped' = x.val.sk
            /\ rd' = x.rest
            /\ nleft' = nleft - 1
            /\ UNCHANGED <<res, pc>>
    /\ UNCHANGED <<ty, rec, src, wire, dty, wire2, varintVars, skipVars, markerVars>>

\* object_builder.finish() after the loop.
Finish ==
    /\ pc = "fields"
    /\ nleft = 0
    /\ res' = Then(finish(dty, builder), LAMBDA o : Ok(o.val, rd))
    /\ pc' = "finished"
    /\ UNCHANGED <<ty, rec, src, wire, dty, rd, nleft, builder, skipped, wire2, varintVars, skipVars, markerVars>>

\* to_bytes on the record from_bytes returned.
ReEncode ==
    /\ pc = "finished"
    /\ res.ok
    /\ wire2' = to_bytes(dty, res.val)
    /\ pc' = "reencoded"
    /\ UNCHANGED <<ty, rec, src, wire, dty, rd, nleft, builder, skipped, res, varintVars, skipVars, markerVars>>

Next ==
    \/ ToBytes
    \/ \E doc \in WireDocs : Receive(doc)
    \/ ReceiveShuffled
    \/ ReceiveWithUnknown
    \/ ReceiveDuplicated
    \/ ReceiveCut
    \/ \E S \in Structs : FromBytes(S)
    \/ ReadField
    \/ Finish
    \/ ReEncode

Spec == Init /\ [][Next]_vars

-----------------------------------------------------------------------------
(* The varint run: write_varint(vn) into an empty writer, then read_varint   *)
(* on a reader holding what was written followed by vtail.                  *)

MaxTail == 2

\* Numbers below 2^62 on and around the width thresholds, as u64 digits.
LowDigits == {0, 1, 63, 64, 255}
VarintNumbers ==
    {<<a, b, c, d, e, g, g, h>> :
        a \in LowDigits, b \in LowDigits, c \in {0, 255}, d \in {0, 63, 64, 255},
        e \in {0, 1, 255}, g \in {0, 255}, h \in {0, 63}}
VarintTails == {[i \in 1..k |-> 255] : k \in 0..MaxTail}

CodecIdle ==
    /\ ty = "" /\ rec = <<>> /\ src = "" /\ wire = <<>> /\ dty = "" /\ rd = <<>>
    /\ nleft = 0 /\ builder = <<>> /\ skipped = 0 /\ res = <<>> /\ wire2 = <<>>
    /\ pc = "idle"

InitVarint ==
    /\ vn \in VarintNumbers
    /\ vtail \in VarintTails
    /\ vout = <<>>
    /\ vin = <<>>
    /\ vpc = "start"
    /\ CodecIdle
    /\ SkipIdle
    /\ MarkerIdle

WriteVarint ==
    /\ vpc = "start"
    /\ vout' = write_varint(vn)
    /\ vpc' = "written"
    /\ UNCHANGED <<vn, vtail, vin, codecVars, skipVars, markerVars>>

ReadVarint ==
    /\ vpc = "written"
    /\ vin' = read_varint(vout \o vtail)
    /\ vpc' = "read"
    /\ UNCHANGED <<vn, vtail, vout, codecVars, skipVars, markerVars>>

NextVarint == WriteVarint \/ ReadVarint

SpecVarint == InitVarint /\ [][NextVarint]_vars

-----------------------------------------------------------------------------
(* The skip run: from_bytes on a document whose unknown fields nest objects, *)
(* one step for each turn of a loop of read_object and of skip_epee_value.  *)
(* The calls in progress are kept in loops; a call returns when its loop    *)
(* has no turn left.                                                        *)

\* A three-deep document cut after each of its bytes.
DeepDoc == Doc(<<DocField("other", NestSeqInside(3)), ValField>>)
CutDocs == {Cut(DeepDoc, n) : n \in 0..(Len(DeepDoc) - 1)}

SkipDocs == CutDocs \cup UNION {NestDocs(k) : k \in 1..MaxSkipNest}
SkipTargets == {"NotPresent", "Test"}

InitSkip ==
    /\ sty \in SkipTargets
    /\ sdoc \in SkipDocs
    /\ srd = <<>>
    /\ loops = <<>>
    /\ sbuilder = <<>>
    /\ skipped_objects = 0
    /\ sres = <<>>
    /\ spc = "start"
    /\ CodecIdle
    /\ VarintIdle
    /\ MarkerIdle

\* The innermost loop, the loops without it, and the loops with one more
\* turn of the innermost begun.
Top == loops[Len(loops)]
Pop == SubSeq(loops, 1, Len(loops) - 1)
Turn == [loops EXCEPT ![Len(loops)].left = @ - 1]

\* if *skipped_objects >= MAX_DEPTH_OF_SKIPPED_OBJECTS
depth_exceeded_at_cap(n) == n >= MAX_DEPTH_OF_SKIPPED_OBJECTS

\* if *skipped_objects > MAX_DEPTH_OF_SKIPPED_OBJECTS
depth_exceeded(n) == n > MAX_DEPTH_OF_SKIPPED_OBJECTS

\* The counter left as it is after read_object.
after_read_object_kept(n) == n

\* *skipped_objects -= 1;
after_read_object(n) == n - 1

\* from_bytes up to read_object's loop on the root object.
SkipFromBytes ==
    /\ spc = "start"
    /\ \E h \in {read_header(sdoc)} : \E n \in {Then(h, LAMBDA x : read_varint(x.rest))} :
          IF ~h.ok
          THEN /\ sres' = h /\ spc' = "returned"
               /\ UNCHANGED <<srd, loops, sbuilder, skipped_objects>>
          ELSE IF ~n.ok
          THEN /\ sres' = n /\ spc' = "returned"
               /\ sbuilder' = builder_default(sty) /\ skipped_objects' = 0
               /\ UNCHANGED <<srd, loops>>
          ELSE /\ sbuilder' = builder_default(sty)
               /\ skipped_objects' = 0
               /\ loops' = <<[fn |-> "read_object",
                              left |-> LoopCount(n.val, Len(n.rest))]>>
               /\ srd' = n.rest
               /\ spc' = "run"
               /\ UNCHANGED sres
    /\ UNCHANGED <<sty, sdoc, codecVars, varintVars, markerVars>>

\* One turn of read_object's loop: the field name and add_field, on the
\* builder of the root object or on a SkipObjectBuilder; for a field the
\* builder did not take, skip_epee_value up to its loop.
ReadObjectField ==
    /\ spc = "run"
    /\ Top.fn = "read_object"
    /\ Top.left > 0
    /\ \E a \in {Then(read_byte(srd), LAMBDA len :
                 Then(read_string(len.rest, len.val), LAMBDA name :
                     IF Len(loops) = 1
                     THEN add_field(sty, sbuilder, name.val, name.rest)
                     ELSE add_field("SkipObject", builder_default("SkipObject"),
                                    name.val, name.rest)))} :
       \E m \in {Then(a, LAMBDA x : read_marker(x.rest))} :
       \E len \in {Then(m, LAMBDA x : IF x.val.is_seq THEN read_varint(x.rest)
                                      ELSE Ok(U64(1), x.rest))} :
          IF ~a.ok
          THEN /\ sres' = a /\ spc' = "returned"
               /\ UNCHANGED <<srd, loops, sbuilder>>
          ELSE IF a.val.hit
          THEN /\ sbuilder' = a.val.b
               /\ srd' = a.rest
               /\ loops' = Turn
               /\ UNCHANGED <<sres, spc>>
          ELSE IF ~len.ok
          THEN /\ sres' = len /\ spc' = "returned"
               /\ UNCHANGED <<srd, loops, sbuilder>>
          ELSE /\ loops' = Append(Turn, [fn |-> "skip_epee_value",
                                         marker |-> m.val,
                                         left |-> LoopCount(len.val, Len(len.rest)),
                                         entry |-> skipped_objects])
               /\ srd' = len.rest
               /\ UNCHANGED <<sres, spc, sbuilder>>
    /\ UNCHANGED <<sty, sdoc, skipped_objects, codecVars, varintVars, markerVars>>

\* One turn of skip_epee_value's loop: the bytes of a value that is not an
\* object; for an object the counter, the check of the depth and
\* read_object::<SkipObject> up to its loop.
SkipValue ==
    /\ spc = "run"
    /\ Top.fn = "skip_epee_value"
    /\ Top.left > 0
    /\ IF Top.marker.inner = "Object"
       THEN /\ skipped_objects' = skipped_objects + 1
            /\ \E n \in {read_varint(srd)} :
                  IF depth_exceeded(skipped_objects + 1)
                  THEN /\ sres' = Err(ErrFormat("Depth of skipped objects exceeded maximum"))
                       /\ spc' = "returned"
                       /\ UNCHANGED <<srd, loops>>
                  ELSE IF ~n.ok
                  THEN /\ sres' = n /\ spc' = "returned"
                       /\ UNCHANGED <<srd, loops>>
                  ELSE /\ loops' = Append(Turn, [fn |-> "read_object",
                                                 left |-> LoopCount(n.val, Len(n.rest))])
                       /\ srd' = n.rest
                       /\ UNCHANGED <<sres, spc>>
       ELSE /\ \E s \in {skip_items(Top.marker, srd, skipped_objects, 1)} :
                  IF ~s.ok
                  THEN /\ sres' = s /\ spc' = "returned"
                       /\ UNCHANGED <<srd, loops>>
                  ELSE /\ srd' = s.rest
                       /\ loops' = Turn
                       /\ UNCHANGED <<sres, spc>>
            /\ UNCHANGED skipped_objects
    /\ UNCHANGED <<sty, sdoc, sbuilder, codecVars, varintVars, markerVars>>

\* read_object returns: object_builder.finish(), to from_bytes for the root
\* object and to skip_epee_value, which lowers the counter, for a skipped one.
ReturnObject ==
    /\ spc = "run"
    /\ Top.fn = "read_object"
    /\ Top.left = 0
    /\ IF Len(loops) = 1
       THEN /\ sres' = Then(finish(sty, sbuilder), LAMBDA o : Ok(o.val, srd))
            /\ spc' = "returned"
            /\ UNCHANGED <<loops, skipped_objects>>
       ELSE /\ loops' = Pop
            /\ skipped_objects' = after_read_object(skipped_objects)
            /\ UNCHANGED <<sres, spc>>
    /\ UNCHANGED <<sty, sdoc, srd, sbuilder, codecVars, varintVars, markerVars>>

\* skip_epee_value returns Ok(()).
ReturnSkip ==
    /\ spc = "run"
    /\ Top.fn = "skip_epee_value"
    /\ Top.left = 0
    /\ loops' = Pop
    /\ UNCHANGED <<sty, sdoc, srd, sbuilder, skipped_objects, sres, spc, codecVars, varintVars, markerVars>>

NextSkip ==
    \/ SkipFromBytes
    \/ ReadObjectField
    \/ SkipValue
    \/ ReturnObject
    \/ ReturnSkip

SpecSkip == InitSkip /\ [][NextSkip]_vars

-----------------------------------------------------------------------------
(* The marker run: Marker::as_u8 on a marker and read_marker on the byte it  *)
(* gives, or read_marker on a byte that arrives from elsewhere.             *)

\* Every marker: an inner marker with and without the sequence flag.
Markers ==
    {[inner |-> InnerMarkers[i], is_seq |-> s] : i \in 1..Len(InnerMarkers), s \in BOOLEAN}

InitMarker ==
    /\ \/ mk \in Markers /\ mbyte = 0
       \/ mk = <<>> /\ mbyte \in 0..255
    /\ mres = <<>>
    /\ mpc = "start"
    /\ CodecIdle
    /\ VarintIdle
    /\ SkipIdle

\* marker.as_u8()
MarkerAsU8 ==
    /\ mpc = "start"
    /\ mk # <<>>
    /\ mbyte' = as_u8(mk)
    /\ mpc' = "written"
    /\ UNCHANGED <<mk, mres, codecVars, varintVars, skipVars>>

\* read_marker on a reader that holds the byte.
ReadMarker ==
    /\ \/ mpc = "written"
       \/ mpc = "start" /\ mk = <<>>
    /\ mres' = read_marker(<<mbyte>>)
    /\ mpc' = "read"
    /\ UNCHANGED <<mk, mbyte, codecVars, varintVars, skipVars>>

NextMarker == MarkerAsU8 \/ ReadMarker

SpecMarker == InitMarker /\ [][NextMarker]_vars

-----------------------------------------------------------------------------
(* Claims about the varint codec (checked under SpecVarint)                  *)

\* The width the varint of n must have: 1 byte up to 63, 2 up to 16383,
\* 4 up to 2^30 - 1, 8 above; and the tag that goes with the width.
VarintWidth(n) ==
    IF LeqU64(n, U64(63)) THEN 1
    ELSE IF LeqU64(n, U64(16383)) THEN 2
    ELSE IF LeqU64(n, U64(1073741823)) THEN 4
    ELSE 8
VarintTag(n) ==
    CASE VarintWidth(n) = 1 -> 0
      [] VarintWidth(n) = 2 -> 1
      [] VarintWidth(n) = 4 -> 2
      [] VarintWidth(n) = 8 -> 3

\* C4: for every n < 2^62, write_varint(n) emits 1, 2, 4 or 8 bytes by the
\* thresholds 63, 16383 and 2^30 - 1, the two low bits of the first byte are
\* 0, 1, 2, 3 for these widths, and read_varint on those bytes (whatever
\* follows them) returns n and leaves exactly what follows them.
C4_VarintRoundTrip ==
    /\ vpc \in {"written", "read"} =>
        /\ Len(vout) = VarintWidth(vn)
        /\ vout[1] % 4 = VarintTag(vn)
    /\ vpc = "read" =>
        /\ vin.ok
        /\ vin.val = vn
        /\ vin.rest = vtail

\* An 8-byte varint was written and read back in front of other bytes.
C4_Witness ==
    /\ vpc = "read"
    /\ VarintWidth(vn) = 8
    /\ vn[8] = 63
    /\ Len(vtail) > 0
    /\ vin.ok

-----------------------------------------------------------------------------
(* Claims about the codec (checked under Spec)                               *)

\* from_bytes has returned.
Returned == pc \in {"failed", "finished"}

\* from_bytes was handed what to_bytes made of rec and decoded it as ty.
SameTypeRun == src = "rec" /\ dty = ty

\* C1: for every record r of a derived type, from_bytes(to_bytes(r)), decoded
\* as the type of r, succeeds and returns a record equal to r.
C1_RoundTrip == (Returned /\ SameTypeRun) => (res.ok /\ res.val = rec)

\* C2: for every byte string b that to_bytes produces from a record of type
\* T, from_bytes::<T>(b) succeeds and to_bytes of the record decoded is b.
C2_ByteRoundTrip ==
    /\ (Returned /\ SameTypeRun) => res.ok
    /\ (pc = "reencoded" /\ SameTypeRun) => wire2 = wire

\* C3: the field count written for an object, number_of_fields(), is the
\* number of fields write_fields emits.
C3_FieldCount ==
    (pc = "encoded" /\ src = "rec") =>
        number_of_fields(ty, rec) = Len(write_fields(ty, rec))

\* The marker byte of a type by the marker table: the tag of the element
\* type, with 0x80 for a sequence; a byte-string is a string, tag 10.
RECURSIVE TableMarker(_)
TableMarker(t) ==
    CASE t[1] = "i64" -> 1 [] t[1] = "i32" -> 2 [] t[1] = "i16" -> 3 [] t[1] = "i8" -> 4
      [] t[1] = "u64" -> 5 [] t[1] = "u32" -> 6 [] t[1] = "u16" -> 7 [] t[1] = "u8" -> 8
      [] t[1] = "f64" -> 9 [] t[1] \in {"string", "bytes"} -> 10 [] t[1] = "bool" -> 11
      [] t[1] = "obj" -> 12
      [] t[1] = "opt" -> TableMarker(t[2])
      [] t[1] = "vec" -> 128 + TableMarker(t[2])

\* The fields of a record in the combined declaration order, the fields of a
\* flattened child in the child's place: <<name, type, value, default>>.
RECURSIVE FlatFields(_, _, _)
FlatFields(S, r, i) ==
    IF i > Len(StructFields(S)) THEN <<>>
    ELSE LET f == StructFields(S)[i] IN
         (IF f.flat THEN FlatFields(f.t[2], r[f.ident], 1)
          ELSE <<[name |-> IF f.alt = <<>> THEN f.ident ELSE f.alt[1],
                  t |-> f.t, v |-> r[f.ident], def |-> f.def]>>)
         \o FlatFields(S, r, i + 1)

\* A field is emitted unless it equals its declared default, is an absent
\* Option or is an empty sequence.
Emitted(x) ==
    /\ ~(x.def # <<>> /\ x.v = x.def[1])
    /\ ~(x.t[1] = "opt" /\ x.v = <<>>)
    /\ ~(x.t[1] = "vec" /\ x.v = <<>>)
    /\ ~(x.t[1] = "opt" /\ x.t[2][1] = "vec" /\ x.v = <<<<>>>>)

\* Name length, name, marker, payload of every emitted field, in order.
RECURSIVE LayoutOf(_)
LayoutOf(xs) ==
    IF Len(xs) = 0 THEN <<>>
    ELSE (IF Emitted(xs[1])
          THEN <<Len(NameBytes(xs[1].name))>> \o NameBytes(xs[1].name)
               \o <<TableMarker(xs[1].t)>> \o write(xs[1].t, xs[1].v)
          ELSE <<>>)
         \o LayoutOf(Tail(xs))

RECURSIVE field_names(_, _, _)
field_names(buf, n, acc) ==
    IF n = 0 THEN Ok(acc, buf)
    ELSE LET len == read_byte(buf) IN
         IF ~len.ok THEN len
         ELSE LET name == read_string(len.rest, len.val) IN
              IF ~name.ok THEN name
              ELSE LET s == skip_epee_value(name.rest, 0) IN
                   IF ~s.ok THEN s
                   ELSE field_names(s.rest, n - 1, acc \cup {name.val})
DocNames(doc) ==
    LET h == read_header(doc) IN
    IF ~h.ok THEN h
    ELSE LET n == read_varint(h.rest) IN
         IF ~n.ok THEN n
         ELSE field_names(n.rest, LoopCount(n.val, Len(n.rest)), {})

\* The declared fields of a struct, those of a flattened child in its place.
RECURSIVE DeclFields(_, _)
DeclFields(S, i) ==
    IF i > Len(StructFields(S)) THEN <<>>
    ELSE LET f == StructFields(S)[i] IN
         (IF f.flat THEN DeclFields(f.t[2], 1) ELSE <<f>>) \o DeclFields(S, i + 1)
Decl(S) == {DeclFields(S, 1)[i] : i \in 1..Len(DeclFields(S, 1))}
WireName(f) == NameBytes(IF f.alt = <<>> THEN f.ident ELSE f.alt[1])

\* A type with a type-level default: Option (None) and Vec (empty).
TypeDefault(t) == t[1] \in {"opt", "vec"}
Required(f) == f.def = <<>> /\ ~TypeDefault(f.t)

\* The value a record holds for a declared field, looked up through the
\* flattened children.
RECURSIVE Lookup(_, _, _, _)
Lookup(S, r, f, i) ==
    LET g == StructFields(S)[i] IN
    IF g.flat /\ f \in Decl(g.t[2]) THEN Lookup(g.t[2], r[g.ident], f, 1)
    ELSE IF g = f THEN r[g.ident]
    ELSE Lookup(S, r, f, i + 1)

\* Fields of the struct decoded into that the document does not name.
AbsentFields == {f \in Decl(dty) : WireName(f) \notin DocNames(wire).val}

\* C7: when from_bytes decodes a well-formed document into T and a field of
\* T without epee_default and without type-level default is absent from the
\* document, finish fails with Format("Required field was not found!"),
\* from_bytes returns that error and never a record.
C7_RequiredMissing ==
    (Returned /\ DocNames(wire).ok /\ \E f \in AbsentFields : Required(f)) =>
        /\ ~res.ok
        /\ pc = "finished" => res.err = <<"Format", "Required field was not found!">>

\* finish was called on a document that names val but not optional_val, for
\* a struct that requires both, and on one that lacks a field a flattened
\* child requires.
C7_Witness ==
    /\ pc = "finished"
    /\ \/ dty = "NotOptional" /\ ty = "Optional" /\ rec.optional_val = -4
       \/ dty = "Parent" /\ ty = "Test"
    /\ DocNames(wire).ok
    /\ ~res.ok

\* C8: when a field whose type has a type-level default (Option: None, Vec:
\* empty) is absent from the document decoded, and no required field is,
\* from_bytes succeeds and the field holds that default.
C8_TypeLevelDefault ==
    (/\ pc = "finished"
     /\ DocNames(wire).ok
     /\ \A f \in AbsentFields : ~Required(f)
     /\ \E f \in AbsentFields : f.def = <<>>) =>
        /\ res.ok
        /\ \A f \in AbsentFields : f.def = <<>> => Lookup(dty, res.val, f, 1) = <<>>

\* The names of the fields write_fields emits.
EmittedNames(S, r) ==
    {SubSeq(write_fields(S, r)[i], 2, 1 + write_fields(S, r)[i][1]) :
        i \in 1..Len(write_fields(S, r))}

\* The fields of a struct itself that carry epee_default.
DefaultedFields(S) ==
    {StructFields(S)[i] : i \in {j \in 1..Len(StructFields(S)) : StructFields(S)[j].def # <<>>}}

\* C6: a field f with epee_default(d) and r.f = d is not in to_bytes(r) and
\* not in its field count, and those bytes decode as the same type with
\* f = d; a document without f that decodes gives f = d; with r.f # d the
\* field is emitted and decodes back to r.f.
C6_DefaultSuppression ==
    /\ (pc = "encoded" /\ src = "rec") =>
        \A f \in DefaultedFields(ty) :
            IF rec[f.ident] = f.def[1]
            THEN /\ WireName(f) \notin EmittedNames(ty, rec)
                 /\ \A v \in Values(f.t, 0) \ {f.def[1]} :
                       number_of_fields(ty, rec) =
                           number_of_fields(ty, [rec EXCEPT ![f.ident] = v]) - 1
            ELSE WireName(f) \in EmittedNames(ty, rec)
    /\ (Returned /\ SameTypeRun) =>
        \A f \in DefaultedFields(ty) : res.ok /\ res.val[f.ident] = rec[f.ident]
    /\ (Returned /\ res.ok /\ DocNames(wire).ok) =>
        \A f \in DefaultedFields(dty) :
            WireName(f) \notin DocNames(wire).val => res.val[f.ident] = f.def[1]

\* The struct that names natively what the other renames, and the record of
\* it with the same field values.
RenamePeer(S) ==
    CASE S = "AltName" -> "AltName2" [] S = "AltName2" -> "AltName"
      [] S = "AltSeq" -> "AltSeq2" [] S = "AltSeq2" -> "AltSeq"
PeerRecord(S, r) ==
    CASE S = "AltName" -> [val2 |-> r.val, d |-> r.d]
      [] S = "AltName2" -> [val |-> r.val2, d |-> r.d]
      [] S = "AltSeq" -> [val2 |-> r.val, seq |-> r.seq]
      [] S = "AltSeq2" -> [val |-> r.val2, seq |-> r.seq]

\* C9: a struct whose field is renamed to s with epee_alt_name and a struct
\* whose field is named s, the other fields the same, give the same bytes
\* for the same field values, and the bytes of either decode as the other to
\* the same field values.
C9_RenameEquivalence ==
    (src = "rec" /\ ty \in {"AltName", "AltName2", "AltSeq", "AltSeq2"}) =>
        /\ pc = "encoded" => wire = to_bytes(RenamePeer(ty), PeerRecord(ty, rec))
        /\ (Returned /\ dty = RenamePeer(ty)) =>
              (res.ok /\ res.val = PeerRecord(ty, rec))

\* The hand-flattened form of a struct with flattened children, and the
\* record of it with the same field values.
FlatOf(S) ==
    CASE S = "Parent" -> "ChildParent"
      [] S = "Parent12" -> "Parent12Flat"
      [] S = "OptParent" -> "OptParentFlat"
RECURSIVE FlatRecord(_, _, _)
FlatRecord(S, r, i) ==
    IF i > Len(StructFields(S)) THEN <<>>
    ELSE LET f == StructFields(S)[i] IN
         (IF f.flat THEN FlatRecord(f.t[2], r[f.ident], 1) ELSE (f.ident :> r[f.ident]))
         @@ FlatRecord(S, r, i + 1)

\* C10: a record with epee_flatten children encodes to the bytes of the
\* hand-flattened record that declares the same fields in the combined
\* declaration order, the varint field count included.
C10_FlattenEquivalence ==
    (pc = "encoded" /\ src = "rec" /\ ty \in {"Parent", "Parent12", "OptParent"}) =>
        /\ wire = to_bytes(FlatOf(ty), FlatRecord(ty, rec, 1))
        /\ number_of_fields(ty, rec) = number_of_fields(FlatOf(ty), FlatRecord(ty, rec, 1))

\* A parent was encoded whose flattened child sits between two fields of its
\* own and holds an absent Option, a default and a sequence.
C10_Witness ==
    /\ pc = "encoded"
    /\ ty = "OptParent"
    /\ rec.child.tag = <<>>
    /\ rec.child.test = 0
    /\ rec.child.seq # <<>>
    /\ wire = to_bytes("OptParentFlat", FlatRecord(ty, rec, 1))

\* Scenario S5: val = 94, val2 = [4, 5], h = 38.9.
S5Parent == [child |-> [val |-> U64(94), val2 |-> <<4, 5>>], h |-> F64_38_9]
S5Flat == [h |-> F64_38_9, val |-> U64(94), val2 |-> <<4, 5>>]
S5Encoded == pc = "encoded" /\ src = "rec" /\ ty = "Parent" /\ rec = S5Parent

\* C11 as stated: to_bytes of Parent { child: Child { val, val2 }, h } with
\* the values of S5 is byte-equal to to_bytes of ParentChild { h, val, val2 }
\* with the same values.
C11_FlattenScenarioAsStated ==
    S5Encoded => wire = to_bytes("ParentChild", S5Flat)

\* C11: to_bytes of Parent { child: Child { val, val2 }, h } with the values
\* of S5 is byte-equal to to_bytes of the flat record that declares val,
\* val2, h in that order, the child's fields in the place of the flattened
\* field; the bytes of ParentChild { h, val, val2 } hold the same three
\* fields with h first, are not those bytes, and decode as Parent to the
\* same field values.
C11_FlattenScenario ==
    /\ (Returned /\ src = "rec" /\ ty = "ParentChild" /\ rec = S5Flat /\ dty = "Parent") =>
          (res.ok /\ res.val = S5Parent)
    /\ S5Encoded =>
        /\ wire = to_bytes("ChildParent", S5Flat)
        /\ wire = HEADER \o <<12>>
                  \o <<3, 118, 97, 108, 5, 94, 0, 0, 0, 0, 0, 0, 0>>
                  \o <<4, 118, 97, 108, 50, 10, 8, 4, 5>>
                  \o <<1, 104, 9>> \o F64_38_9
        /\ to_bytes("ParentChild", S5Flat) =
               HEADER \o <<12>>
                  \o <<1, 104, 9>> \o F64_38_9
                  \o <<3, 118, 97, 108, 5, 94, 0, 0, 0, 0, 0, 0, 0>>
                  \o <<4, 118, 97, 108, 50, 10, 8, 4, 5>>

\* The record of S5 was encoded.
C11_Witness == S5Encoded /\ Len(wire) = 43

\* The document of the record of a run with its fields in the order they are
\* declared, and what from_bytes returns for it.
Canonical == Doc(write_fields(ty, rec))
FromCanonical == from_bytes(dty, Canonical)

\* C12: from_bytes returns for a well-formed document with its fields in any
\* order what it returns for the fields in declaration order; the bytes of
\* ParentChild { h, val, val2 }, in any order, decode as Parent { child:
\* Child { val, val2 }, h } to the same field values.
C12_OrderIndependent ==
    /\ (Returned /\ src = "perm") =>
          /\ res.ok = FromCanonical.ok
          /\ res.ok => res.val = FromCanonical.val
    /\ (Returned /\ src \in {"rec", "perm"} /\ ty = "ParentChild" /\ dty = "Parent") =>
          /\ res.ok
          /\ res.val = [child |-> [val |-> rec.val, val2 |-> rec.val2], h |-> rec.h]

\* The fields of a ParentChild arrived with val2 first and h last and were
\* decoded as Parent.
C12_Witness ==
    /\ pc = "finished"
    /\ src = "perm"
    /\ ty = "ParentChild"
    /\ dty = "Parent"
    /\ rec = S5Flat
    /\ wire = Doc(Permute(write_fields(ty, rec), <<3, 2, 1>>))
    /\ res.ok

\* The structs with the one field seq, a sequence, and the tag the marker
\* table gives the elements of seq.
SeqStructs == {"ValSeq", "ObjSeq", "StrSeq"}
ElementTag(S) == TableMarker(StructFields(S)[1].t[2])

\* C13: a sequence field whose marker has the sequence bit and whose count
\* is 0 decodes to the empty sequence, whichever of the tags 1..12 the
\* marker carries.
C13_EmptySeqAnyMarker ==
    \A m \in 129..140 :
        (Returned /\ src = "doc" /\ wire = SeqDoc(m, <<0>>) /\ dty \in SeqStructs) =>
            (res.ok /\ res.val = [seq |-> <<>>] /\ res.rest = <<>>)

\* An empty sequence marked as a sequence of f64 was decoded into a sequence
\* of objects.
C13_Witness ==
    /\ pc = "finished"
    /\ src = "doc"
    /\ wire = SeqDoc(137, <<0>>)
    /\ dty = "ObjSeq"
    /\ res.ok

\* The payloads with one element or more that are elements of the sequence
\* type of S, and the sequence they hold.
OwnPayloads(S) ==
    CASE S = "ValSeq" -> {<<4>> \o U64(1), <<8>> \o U64(1) \o AllOnes}
      [] S = "ObjSeq" -> {<<4>> \o EmptyObjSeq}
      [] S = "StrSeq" -> {<<4, 8, 111, 107>>}
Held(p) ==
    CASE p = <<4>> \o U64(1) -> <<U64(1)>>
      [] p = <<8>> \o U64(1) \o AllOnes -> <<U64(1), AllOnes>>
      [] p = <<4>> \o EmptyObjSeq -> <<[seq |-> <<>>]>>
      [] p = <<4, 8, 111, 107>> -> <<<<111, 107>>>>

\* C14: for a sequence field with the sequence bit and a count of 1 or more,
\* from_bytes fails with a Format error when the tag of the marker is not
\* the tag of the element type, and returns the elements when it is; a
\* marker without the sequence bit fails with a Format error for any count.
C14_SeqMarkerStrict ==
    \A p \in SeqPayloads :
        /\ \A m \in 129..140 :
              (Returned /\ src = "doc" /\ wire = SeqDoc(m, p) /\ dty \in SeqStructs
               /\ p # <<0>>) =>
                  IF m - 128 # ElementTag(dty)
                  THEN ~res.ok /\ res.err = ErrFormat("Marker does not match expected Marker")
                  ELSE p \in OwnPayloads(dty) => (res.ok /\ res.val = [seq |-> Held(p)])
        /\ \A m \in 1..12 :
              (Returned /\ src = "doc" /\ wire = SeqDoc(m, p) /\ dty \in SeqStructs) =>
                  /\ ~res.ok
                  /\ res.err =
                        ErrFormat("Marker is not sequence when a sequence was expected")

\* A sequence of one element marked as a sequence of u64 failed to decode
\* into a sequence of i64, and one marked as a sequence of i64 decoded.
C14_Witness ==
    /\ src = "doc"
    /\ dty = "ValSeq"
    /\ \/ pc = "failed" /\ wire = SeqDoc(133, <<4>> \o U64(1)) /\ ~res.ok
       \/ pc = "failed" /\ wire = SeqDoc(1, <<4>> \o U64(1)) /\ ~res.ok

-----------------------------------------------------------------------------
(* Claims on the skip run *)

DepthError == ErrFormat("Depth of skipped objects exceeded maximum")

\* The objects being skipped: the calls of read_object in progress below the
\* root object.
Depth == Cardinality({i \in 2..Len(loops) : loops[i].fn = "read_object"})

\* C15: while an unknown field is skipped, from_bytes fails with
\* Format("Depth of skipped objects exceeded maximum") exactly when the value
\* of the field nests 21 or more objects; a value that nests at most 20 is
\* skipped, the reader is left at the byte after it, and from_bytes returns
\* the record of the known fields.
C15_SkipDepthBound ==
    /\ \A k \in 1..MaxSkipNest :
          (spc = "returned" /\ sdoc \in NestDocs(k)) =>
              IF k > MAX_DEPTH_OF_SKIPPED_OBJECTS
              THEN ~sres.ok /\ sres.err = DepthError
              ELSE /\ sres.err # DepthError
                   /\ sty = "NotPresent" => sres = Ok([val |-> 21], <<>>)
    /\ (spc = "returned" /\ sres.err = DepthError) =>
          \E k \in (MAX_DEPTH_OF_SKIPPED_OBJECTS + 1)..MaxSkipNest : sdoc \in NestDocs(k)
    /\ \A k \in 1..MAX_DEPTH_OF_SKIPPED_OBJECTS :
          (spc = "run" /\ Len(loops) = 2 /\ Top.left = 0 /\ sdoc \in NestDocs(k)) =>
              \/ srd = ValField
              \/ srd = DocField("node_data", NestChain(k)) \o ValField
    /\ (spc = "returned" /\ (sdoc \in NestDocs(1) \cup NestDocs(2) \cup CutDocs)) =>
          sres = from_bytes(sty, sdoc)

\* from_bytes returned the depth error on the document whose field other
\* holds 21 objects, one inside the other, with the counter at 21.
C15_Witness ==
    /\ spc = "returned"
    /\ sdoc = Doc(<<DocField("other", NestChain(21)), ValField>>)
    /\ sres = Err(DepthError)
    /\ skipped_objects = 21
    /\ Depth = 20

\* C20: the counter of skipped objects is raised before read_object is called
\* on a skipped object and lowered after it: while decoding goes on it is the
\* number of skipped objects being read and lies in 0..20, a call of
\* skip_epee_value that returns Ok leaves it at its value on entry, and
\* unknown objects side by side, as fields of one object or as elements of
\* one sequence, never bring the depth error when none nests more than 20.
\* The counter reads 21 only in the call that returns the depth error.
C20_SkipCounterBalanced ==
    /\ spc = "run" =>
          /\ skipped_objects = Depth
          /\ skipped_objects \in 0..MAX_DEPTH_OF_SKIPPED_OBJECTS
    /\ (spc = "run" /\ Top.fn = "skip_epee_value" /\ Top.left = 0) =>
          skipped_objects = Top.entry
    /\ (spc = "returned" /\ sres.ok) => skipped_objects = 0
    /\ skipped_objects \notin 0..MAX_DEPTH_OF_SKIPPED_OBJECTS =>
          /\ skipped_objects = MAX_DEPTH_OF_SKIPPED_OBJECTS + 1
          /\ spc = "returned"
          /\ sres = Err(DepthError)
    /\ \A k \in 1..MAX_DEPTH_OF_SKIPPED_OBJECTS :
          (spc = "returned" /\ sdoc \in NestDocs(k)) => sres.err # DepthError

\* skip_epee_value is about to return Ok for the second of two unknown
\* fields that nest 20 objects each, and for a sequence of Siblings objects.
C20_Witness ==
    /\ spc = "run"
    /\ Top.fn = "skip_epee_value"
    /\ Top.left = 0
    /\ skipped_objects = 0
    /\ \/ sdoc = Doc(<<DocField("other", NestChain(20)),
                       DocField("node_data", NestChain(20)), ValField>>)
          /\ srd = ValField
       \/ sdoc = Doc(<<DocField("other", NestMany(20)), ValField>>)

-----------------------------------------------------------------------------
(* Claims on unknown fields, the header and byte strings *)

\* C16: when a well-formed document holds, anywhere among its fields, a field
\* under a name the struct decoded into does not declare, whose value is a
\* fixed-width number, a bool, a string, an object or a sequence of numbers,
\* bools or objects, skip_epee_value consumes the bytes of that value and no
\* other, and from_bytes returns what it returns for the document without
\* that field.
C16_UnknownSkipped ==
    /\ (Returned /\ src = "extra") => res = FromCanonical
    /\ (pc = "encoded" /\ src = "extra") =>
          \A u \in UnknownValues, tail \in {<<>>, ValField} :
              skip_epee_value(u \o tail, skipped) = Ok(skipped, tail)

\* A Parent arrived with a sequence of two objects under the name other after
\* its first field and was decoded to the record that was encoded.
C16_Witness ==
    /\ pc = "finished"
    /\ src = "extra"
    /\ ty = "Parent"
    /\ dty = "Parent"
    /\ rec = S5Parent
    /\ wire = Doc(InsertAt(write_fields(ty, rec), 1,
                           DocField("other", write_epee_value(<<"vec", <<"obj", "Pair">>>>,
                                <<[a |-> 7, b |-> 7], [a |-> 70000, b |-> 7]>>))))
    /\ res = Ok(rec, <<>>)

\* The first nine bytes of the bytes handed to from_bytes are the header.
HasHeader == Len(wire) >= 9 /\ SubSeq(wire, 1, 9) = <<1, 17, 1, 1, 1, 1, 2, 1, 1>>

\* from_bytes has gone past read_header or has returned.
PastHeader == pc \in {"fields", "failed", "finished", "reencoded"}

\* C17: from_bytes returns a record only for bytes that start with
\* 01 11 01 01 01 01 02 01 01; for nine or more bytes that start otherwise
\* it returns Format("Data does not contain header"), for fewer than nine
\* bytes IO("Reader ran out of bytes"), and in both cases it has made no
\* builder and read no field.
C17_HeaderVerified ==
    /\ (Returned /\ res.ok) => HasHeader
    /\ (PastHeader /\ ~HasHeader) =>
          /\ pc = "failed"
          /\ res = IF Len(wire) >= 9
                   THEN Err(ErrFormat("Data does not contain header"))
                   ELSE Err(ErrIO("Reader ran out of bytes"))
          /\ builder = <<>>
          /\ rd = <<>>
          /\ nleft = 0

\* from_bytes returned on { val: 21 } with the last byte of its header
\* changed, and on the first eight bytes of the header.
C17_Witness ==
    /\ pc = "failed"
    /\ src = "doc"
    /\ dty = "NotPresent"
    /\ \/ wire = Changed(Doc(<<ValField>>), 9) /\ res.err[1] = "Format"
       \/ wire = Cut(HEADER, 8) /\ res.err[1] = "IO"

\* C18: a field declared Vec<u8> is decoded to the same bytes from the
\* marker 10 and from the marker 0x88 of a sequence of u8, each followed by
\* the same length and bytes; to_bytes writes such a field with the marker
\* 10, never 0x88.
C18_ByteStringEquivalence ==
    /\ \A b \in {<<>>, <<4, 5>>}, m \in {10, 136} :
          (Returned /\ src = "doc" /\ dty = "Child" /\ wire = BytesDoc(m, b)) =>
              res = Ok([val |-> U64(94), val2 |-> b], <<>>)
    /\ (pc = "encoded" /\ src = "rec" /\ ty = "Child") =>
          wire = HEADER \o <<8>>
                 \o <<3, 118, 97, 108, 5>> \o rec.val
                 \o <<4, 118, 97, 108, 50, 10>> \o write_varint(U64(Len(rec.val2)))
                 \o rec.val2

\* C19: an unknown field whose value is a sequence of strings, with the
\* marker 0x8A, a count, and for each element a length and its bytes, is
\* skipped whole, and from_bytes decodes the other fields of the document.
C19_StringSeqSkipped ==
    /\ (Returned /\ src = "doc" /\ dty = "NotPresent" /\ wire \in StringSeqDocs) =>
          res = Ok([val |-> 21], <<>>)
    /\ (pc = "encoded" /\ src = "doc" /\ wire \in StringSeqDocs) =>
          \A v \in StringSeqValues : skip_epee_value(v \o ValField, 0) = Ok(0, ValField)

-----------------------------------------------------------------------------
(* Claims on the marker run *)

\* The marker table: the tag of each inner marker.
MarkerTag(inner) ==
    CASE inner = "I64" -> 1 [] inner = "I32" -> 2 [] inner = "I16" -> 3
      [] inner = "I8" -> 4 [] inner = "U64" -> 5 [] inner = "U32" -> 6
      [] inner = "U16" -> 7 [] inner = "U8" -> 8 [] inner = "F64" -> 9
      [] inner = "String" -> 10 [] inner = "Bool" -> 11 [] inner = "Object" -> 12

\* C21: as_u8 gives the tag of the inner marker, 1..12 as in the table, with
\* bit 0x80 set for a sequence; read_marker takes bit 0x80 as is_seq and the
\* low seven bits as the tag, so that it returns m on as_u8(m) for every
\* marker m; on a byte whose low seven bits are 0 or above 12 it fails with
\* Format("Unknown value Marker").
C21_MarkerCodec ==
    /\ (mpc \in {"written", "read"} /\ mk # <<>>) =>
          mbyte = MarkerTag(mk.inner) + (IF mk.is_seq THEN 128 ELSE 0)
    /\ (mpc = "read" /\ mk # <<>>) => mres = Ok(mk, <<>>)
    /\ (mpc = "read" /\ mk = <<>>) =>
          IF mbyte % 128 \in 1..12
          THEN /\ mres.ok
               /\ mres.rest = <<>>
               /\ mres.val.is_seq = (mbyte >= 128)
               /\ MarkerTag(mres.val.inner) = mbyte % 128
          ELSE mres = Err(ErrFormat("Unknown value Marker"))

-----------------------------------------------------------------------------
(* Claims on repeated names and on truncated input *)

\* C22: when a well-formed document carries the name of a declared field
\* twice, add_field reads both values in the order of the document, the
\* second takes the place of the first, and from_bytes raises no error for
\* it: it returns what it returns for the document with the last occurrence
\* alone, which for the struct that was encoded is the record encoded.
C22_DuplicateLastWins ==
    /\ (Returned /\ src = "dup") => res = FromCanonical
    /\ (/\ Returned
        /\ src = "dup"
        /\ dty = ty
        /\ number_of_fields(ty, rec) = Len(write_fields(ty, rec))) => res = Ok(rec, <<>>)

\* A Parent arrived with one of its fields twice, the value of another
\* record first, and was decoded to the record that was encoded.
C22_Witness ==
    /\ pc = "finished"
    /\ src = "dup"
    /\ ty = "Parent"
    /\ dty = "Parent"
    /\ rec = S5Parent
    /\ Len(wire) > Len(Canonical)
    /\ res = Ok(rec, <<>>)

\* The bytes a cut document was cut from, and what from_bytes returns for
\* them.
Whole == IF src = "cut" THEN to_bytes(ty, rec) ELSE WithOther(ty, rec)
FromWhole == from_bytes(dty, Whole)

\* C23: when from_bytes succeeds on b and consumes all of it, from_bytes of
\* every proper prefix of b returns IO("Reader ran out of bytes"), from the
\* read that the prefix cannot fill, and never a record.
C23_TruncatedInput ==
    (Returned /\ src \in {"cut", "cutx"} /\ FromWhole.ok /\ FromWhole.rest = <<>>) =>
        /\ pc = "failed"
        /\ res = Err(ErrIO("Reader ran out of bytes"))

\* from_bytes returned on the bytes of { child: { val: 94, val2: [4, 5] },
\* h: 38.9 } without the last of them, after it had read two fields.
C23_Witness ==
    /\ pc = "failed"
    /\ src = "cut"
    /\ ty = "Parent"
    /\ dty = "Parent"
    /\ rec = S5Parent
    /\ Len(wire) = Len(to_bytes(ty, rec)) - 1
    /\ nleft = 1
    /\ FromWhole = Ok(rec, <<>>)
    /\ ~res.ok

=============================================================================
